---- MODULE Spec2Model ----
(***************************************************************************)
(* A model of plem's header-line parser (src/src/header.rs) and of the     *)
(* ingestion loop that calls it (src/src/main.rs, run).                    *)
(*                                                                         *)
(* A string is a sequence of one-character strings.  A parser takes the    *)
(* remaining input and returns a record [ok, rest, out], like nom's         *)
(* IResult<&str, O>: ok = FALSE stands for Err(nom::Err::Error(..)).        *)
(* usize is taken to be 64 bits wide, so `*n as usize` keeps the value.     *)
(***************************************************************************)
EXTENDS Integers, Sequences, FiniteSets, TLC

VARIABLES
    gen,                 \* how the line under parse was composed (a history variable)
    input,               \* the argument of parse_header_info
    pc,                  \* "idle", "start", "fold", "ok", "err", "trap"
    v_of_kv,             \* the pairs many1 collected
    folded,              \* how many of them try_fold has consumed
    remainder,           \* what all_consuming left of the input
    h,                   \* the accumulator of try_fold
    rows,                \* run: the rows the csv reader yields
    pos,                 \* run: the row the loop is at
    runpc,               \* run: "idle", "loop", "header", "err", "panic", "bail", "plot"
    first_valid_record,
    data,
    x_max, x_min, y_max, y_min,
    headers,             \* run: the rows sent to the header parsers
    warned,              \* run: the rows reported by warn!("Failed to convert ..")
    info                 \* run: the last result printed as "Found header info"

parserVars == <<gen, input, pc, v_of_kv, folded, remainder, h>>
runVars == <<rows, pos, runpc, first_valid_record, data,
             x_max, x_min, y_max, y_min, headers, warned, info>>
vars == <<gen, input, pc, v_of_kv, folded, remainder, h,
          rows, pos, runpc, first_valid_record, data,
          x_max, x_min, y_max, y_min, headers, warned, info>>

----------------------------------------------------------------------------
(* Characters *)

DQ == "\""

Digits == {"0", "1", "2", "3", "4", "5", "6", "7", "8", "9"}

DigitVal(c) ==
    CASE c = "0" -> 0 [] c = "1" -> 1 [] c = "2" -> 2 [] c = "3" -> 3
      [] c = "4" -> 4 [] c = "5" -> 5 [] c = "6" -> 6 [] c = "7" -> 7
      [] c = "8" -> 8 [] c = "9" -> 9

\* nom::character::is_digit, on the ASCII characters the model uses
is_digit(c) == c \in Digits

\* the characters space0 skips: ' ' and '\t'
IsSpace(c) == c \in {" ", "\t"}

UpperToLower ==
    ("A" :> "a") @@ ("B" :> "b") @@ ("C" :> "c") @@ ("D" :> "d") @@
    ("E" :> "e") @@ ("F" :> "f") @@ ("G" :> "g") @@ ("H" :> "h") @@
    ("I" :> "i") @@ ("J" :> "j") @@ ("K" :> "k") @@ ("L" :> "l") @@
    ("M" :> "m") @@ ("N" :> "n") @@ ("O" :> "o") @@ ("P" :> "p") @@
    ("Q" :> "q") @@ ("R" :> "r") @@ ("S" :> "s") @@ ("T" :> "t") @@
    ("U" :> "u") @@ ("V" :> "v") @@ ("W" :> "w") @@ ("X" :> "x") @@
    ("Y" :> "y") @@ ("Z" :> "z")

\* str::to_lowercase, on the ASCII characters the model uses
to_lowercase(s) ==
    [i \in 1..Len(s) |-> IF s[i] \in DOMAIN UpperToLower
                         THEN UpperToLower[s[i]] ELSE s[i]]

----------------------------------------------------------------------------
(* nom's combinators, as the parser uses them *)

Err == [ok |-> FALSE, rest |-> <<>>, out |-> <<>>]
Ok(rest, out) == [ok |-> TRUE, rest |-> rest, out |-> out]

Drop(s, n) == SubSeq(s, n + 1, Len(s))
Take(s, n) == SubSeq(s, 1, n)

RECURSIVE SpaceRun(_, _)
\* the number of leading spaces and tabs of s, counted from index i
SpaceRun(s, i) ==
    IF i <= Len(s) /\ IsSpace(s[i]) THEN SpaceRun(s, i + 1) ELSE i - 1

RECURSIVE DigitRun(_, _)
DigitRun(s, i) ==
    IF i <= Len(s) /\ is_digit(s[i]) THEN DigitRun(s, i + 1) ELSE i - 1

RECURSIVE FindChar(_, _, _)
\* the index of the first c in s at or after i, 0 when there is none
FindChar(s, c, i) ==
    IF i > Len(s) THEN 0
    ELSE IF s[i] = c THEN i ELSE FindChar(s, c, i + 1)

\* nom::character::complete::char
char(c, i) ==
    IF Len(i) > 0 /\ i[1] = c THEN Ok(Tail(i), c) ELSE Err

\* nom::character::complete::space0
space0(i) ==
    LET n == SpaceRun(i, 1) IN Ok(Drop(i, n), Take(i, n))

\* nom::bytes::complete::take_until, for a one-character tag
take_until(c, i) ==
    LET n == FindChar(i, c, 1)
    IN IF n = 0 THEN Err ELSE Ok(Drop(i, n - 1), Take(i, n - 1))

\* nom::bytes::complete::take_till(|x| !is_digit(x))
take_till_nondigit(i) ==
    LET n == DigitRun(i, 1) IN Ok(Drop(i, n), Take(i, n))

----------------------------------------------------------------------------
(* u64::from_str_radix(digits, 10) *)

\* u64::MAX = 18446744073709551615, as its decimal digits
U64MaxDigits ==
    <<"1", "8", "4", "4", "6", "7", "4", "4", "0", "7",
      "3", "7", "0", "9", "5", "5", "1", "6", "1", "5">>

RECURSIVE StripZeros(_)
StripZeros(s) ==
    IF Len(s) > 0 /\ s[1] = "0" THEN StripZeros(Tail(s)) ELSE s

RECURSIVE DigitsLeq(_, _)
\* a <= b for two digit strings of the same length
DigitsLeq(a, b) ==
    IF Len(a) = 0 THEN TRUE
    ELSE IF DigitVal(a[1]) < DigitVal(b[1]) THEN TRUE
    ELSE IF DigitVal(a[1]) > DigitVal(b[1]) THEN FALSE
    ELSE DigitsLeq(Tail(a), Tail(b))

FitsU64(digits) ==
    LET d == StripZeros(digits)
    IN \/ Len(d) < Len(U64MaxDigits)
       \/ Len(d) = Len(U64MaxDigits) /\ DigitsLeq(d, U64MaxDigits)

RECURSIVE DecimalValue(_, _)
\* the value of a digit string; TLC's integers end at 2^31 - 1, and the lines
\* of the model hold no number between that and u64::MAX
DecimalValue(s, acc) ==
    IF Len(s) = 0 THEN acc
    ELSE DecimalValue(Tail(s), 10 * acc + DigitVal(s[1]))

\* ok = FALSE for the empty string (IntErrorKind::Empty) and on overflow
from_str_radix(digits) ==
    IF Len(digits) = 0 \/ ~FitsU64(digits) THEN Err
    ELSE Ok(<<>>, DecimalValue(StripZeros(digits), 0))

----------------------------------------------------------------------------
(* enum Value *)

Numeric(n) == [tag |-> "Numeric", n |-> n, s |-> <<>>]
String(s) == [tag |-> "String", n |-> 0, s |-> s]

\* the recognized keys, lowercase
k_pallet == <<"p", "a", "l", "l", "e", "t">>
k_extrinsic == <<"e", "x", "t", "r", "i", "n", "s", "i", "c">>
k_steps == <<"s", "t", "e", "p", "s">>
k_repeat == <<"r", "e", "p", "e", "a", "t">>

\* lazy_static SUPPORTED; "None" for a key the table does not hold
SUPPORTED(k) ==
    CASE k = k_pallet -> "String"
      [] k = k_extrinsic -> "String"
      [] k = k_steps -> "Numeric"
      [] k = k_repeat -> "Numeric"
      [] OTHER -> "None"

-------------------------------------------------------------------------------------------------------------------------------------------------
(* The grammar *)

HasQuote(s) == \E j \in 1..Len(s) : s[j] = DQ
LastQuote(s) ==
    CHOOSE j \in 1..Len(s) :
        s[j] = DQ /\ \A m \in (j + 1)..Len(s) : s[m] # DQ

\* sequencing, as in nom's tuple/preceded/terminated: the first Err is the
\* result
AndThen(r, F(_)) == IF r.ok THEN F(r) ELSE Err

\* nom::branch::alt on two parsers
OrElse(a, b) == IF a.ok THEN a ELSE b

\* a faulty variant of unquote_val: the value runs to the last double quote
unquote_val_to_last_quote(i) ==
    AndThen(char(DQ, i), LAMBDA q1 :
    AndThen(space0(q1.rest), LAMBDA s1 :
    IF ~HasQuote(s1.rest) THEN Err
    ELSE Ok(<<>>, Take(s1.rest, LastQuote(s1.rest) - 1))))

unquote_val(i) ==
    AndThen(char(DQ, i), LAMBDA q1 :
    AndThen(space0(q1.rest), LAMBDA s1 :
    AndThen(take_until(DQ, s1.rest), LAMBDA t :
    AndThen(char(DQ, t.rest), LAMBDA q2 :
    AndThen(space0(q2.rest), LAMBDA s2 :
    Ok(s2.rest, t.out))))))

\* map_parser(take_until(","), unquote_val): unquote_val runs on the text
\* before the next comma, and what it leaves of that text is dropped
string_val(i) ==
    AndThen(take_until(",", i), LAMBDA c :
    AndThen(unquote_val(c.out), LAMBDA u :
    Ok(c.rest, String(u.out))))

numeric_val(i) ==
    AndThen(space0(i), LAMBDA d0 :
    AndThen(take_till_nondigit(d0.rest), LAMBDA digits :
    AndThen(space0(digits.rest), LAMBDA d1 :
    AndThen(from_str_radix(digits.out), LAMBDA n :
    Ok(d1.rest, Numeric(n.out))))))

\* alt((numeric_val, string_val))
value(i) == OrElse(numeric_val(i), string_val(i))

\* opt(tuple((char(','), space0)))
opt_comma(i) ==
    OrElse(AndThen(char(",", i), LAMBDA c : space0(c.rest)), Ok(i, <<>>))

take_header_info_kv(i) ==
    IF Len(i) = 0 THEN Err
    ELSE AndThen(take_until(":", i), LAMBDA k :
         AndThen(char(":", k.rest), LAMBDA c :
         AndThen(space0(c.rest), LAMBDA s1 :
         AndThen(value(s1.rest), LAMBDA v :
         AndThen(space0(v.rest), LAMBDA s2 :
         AndThen(opt_comma(s2.rest), LAMBDA sep :
         Ok(sep.rest, [k |-> k.out, v |-> v.out])))))))

RECURSIVE many0_kv(_, _)
\* the loop of many1 after its first element: it ends at the first Err, and
\* fails if an element consumed nothing
many0_step(i, acc, r) ==
    IF ~r.ok THEN Ok(i, acc)
    ELSE IF r.rest = i THEN Err
    ELSE many0_kv(r.rest, Append(acc, r.out))

many0_kv(i, acc) == many0_step(i, acc, take_header_info_kv(i))

\* a faulty variant of many1_kv: many0, which accepts no pair at all
many1_kv_as_many0(i) == many0_kv(i, <<>>)

\* many1(take_header_info_kv)
many1_kv(i) ==
    AndThen(take_header_info_kv(i), LAMBDA r : many0_kv(r.rest, <<r.out>>))

\* preceded(tuple((char('"'), space0)),
\*          terminated(many1(..), tuple((space0, char('"'), space0))))
header_grammar(i) ==
    AndThen(char(DQ, i), LAMBDA q1 :
    AndThen(space0(q1.rest), LAMBDA s1 :
    AndThen(many1_kv(s1.rest), LAMBDA m :
    AndThen(space0(m.rest), LAMBDA s2 :
    AndThen(char(DQ, s2.rest), LAMBDA q2 :
    AndThen(space0(q2.rest), LAMBDA s3 :
    Ok(s3.rest, m.out)))))))

\* a faulty variant of all_consuming: a partial match is let through
all_consuming_partial(r) == r

\* nom::combinator::all_consuming
all_consuming(r) ==
    IF r.ok /\ Len(r.rest) > 0 THEN Err ELSE r

-------
(* parse_header_info *)

\* HeaderInfo::default()
HeaderInfoDefault ==
    [repeat |-> 0, steps |-> 0, pallet_name |-> <<>>, extrinsic |-> <<>>]

\* Value::as_usize and Value::as_str reach unreachable!() on the other variant
as_usize_traps(v) == v.tag # "Numeric"
as_str_traps(v) == v.tag # "String"

\* whether the closure of try_fold panics on the pair (k, v)
assign_traps(k, v) ==
    LET lk == to_lowercase(k)
    IN CASE SUPPORTED(lk) = "Numeric" -> as_usize_traps(v)
         [] SUPPORTED(lk) = "String" -> as_str_traps(v)
         [] OTHER -> FALSE

\* a faulty variant of assign: an unknown key starts the record afresh
assign_unknown_resets(acc, k, v) ==
    LET lk == to_lowercase(k)
    IN CASE lk = k_repeat -> [acc EXCEPT !.repeat = v.n]
         [] lk = k_steps -> [acc EXCEPT !.steps = v.n]
         [] lk = k_pallet -> [acc EXCEPT !.pallet_name = v.s]
         [] lk = k_extrinsic -> [acc EXCEPT !.extrinsic = v.s]
         [] OTHER -> HeaderInfoDefault

\* a faulty variant of assign: the arms of "repeat" and "steps" are swapped
assign_swapped(acc, k, v) ==
    LET lk == to_lowercase(k)
    IN CASE lk = k_repeat -> [acc EXCEPT !.steps = v.n]
         [] lk = k_steps -> [acc EXCEPT !.repeat = v.n]
         [] lk = k_pallet -> [acc EXCEPT !.pallet_name = v.s]
         [] lk = k_extrinsic -> [acc EXCEPT !.extrinsic = v.s]
         [] OTHER -> acc

\* the closure of try_fold, on a pair it does not panic on
assign(acc, k, v) ==
    LET lk == to_lowercase(k)
    IN CASE lk = k_repeat -> [acc EXCEPT !.repeat = v.n]
         [] lk = k_steps -> [acc EXCEPT !.steps = v.n]
         [] lk = k_pallet -> [acc EXCEPT !.pallet_name = v.s]
         [] lk = k_extrinsic -> [acc EXCEPT !.extrinsic = v.s]
         [] OTHER -> acc

\* let (remainder, v_of_kv) = all_consuming(..)(input)?;
ParseGrammar ==
    /\ pc = "start"
    /\ \E g \in {all_consuming(header_grammar(input))} :
          IF g.ok
          THEN /\ pc' = "fold"
               /\ v_of_kv' = g.out
               /\ remainder' = g.rest
          ELSE /\ pc' = "err"
               /\ UNCHANGED <<v_of_kv, remainder>>
    /\ folded' = 0
    /\ h' = HeaderInfoDefault
    /\ UNCHANGED <<gen, input>>
    /\ UNCHANGED runVars

\* one turn of try_fold's closure
FoldStep ==
    /\ pc = "fold"
    /\ folded < Len(v_of_kv)
    /\ LET kv == v_of_kv[folded + 1]
       IN IF assign_traps(kv.k, kv.v)
          THEN /\ pc' = "trap"
               /\ UNCHANGED <<h, folded>>
          ELSE /\ h' = assign(h, kv.k, kv.v)
               /\ folded' = folded + 1
               /\ pc' = pc
    /\ UNCHANGED <<gen, input, v_of_kv, remainder>>
    /\ UNCHANGED runVars

\* Ok((remainder, h))
ParseReturn ==
    /\ pc = "fold"
    /\ folded = Len(v_of_kv)
    /\ pc' = "ok"
    /\ UNCHANGED <<gen, input, v_of_kv, folded, remainder, h>>
    /\ UNCHANGED runVars

----------------------------------------------------------------------------------------------------------------------------------------
(* The lines the parser is given *)

MaxLen == 5
MaxPairs == 2

\* every string over a small alphabet, up to MaxLen characters
TextAlphabet == {DQ, ":", ",", " ", "1", "a"}
TextLines == UNION {[1..n -> TextAlphabet] : n \in 0..MaxLen}

\* the second line of test::simple, a CSV column header
CsvHeaderLine == <<DQ, "A", ",", "I", ",", "t", "i", "m", "e", DQ>>

TextGens == [kind : {"text"}, line : TextLines \cup {CsvHeaderLine}]

\* headers of up to MaxPairs pairs, each pair a key, ':', a value text and a
\* separator text
PairKeys ==
    { <<"P", "A", "L", "L", "E", "T">>,
      <<"S", "t", "e", "p", "s">>,
      <<"R", "e", "p", "e", "a", "t">>,
      <<"F", "o", "o">> }

\* one more than u64::MAX
OverflowDigits ==
    <<"1", "8", "4", "4", "6", "7", "4", "4", "0", "7",
      "3", "7", "0", "9", "5", "5", "1", "6", "1", "6">>

PairValues ==
    { <<" ", "1">>,
      <<" ", "2">>,
      <<" ", DQ, "a", "b", DQ>>,
      <<" ", DQ, "a", DQ, "b", DQ>>,
      <<" ", DQ, " ", "x", DQ>>,
      <<" ", "3", "0", "a", "b", "c">>,
      OverflowDigits }

PairSeps == { <<>>, <<",", " ">> }

PairTexts == [key : PairKeys, val : PairValues, sep : PairSeps]

RenderPair(p) == p.key \o <<":">> \o p.val \o p.sep

RECURSIVE RenderPairs(_)
RenderPairs(ps) ==
    IF Len(ps) = 0 THEN <<>> ELSE RenderPair(ps[1]) \o RenderPairs(Tail(ps))

PairLists == UNION {[1..n -> PairTexts] : n \in 0..MaxPairs}

PairGens == [kind : {"pairs"}, pairs : PairLists]

\* headers built from the pairs of test::simple: the recognized keys of a
\* subset, in every order, in four spellings of the keys and in four layouts
\* of the optional whitespace and of the comma after the last pair
Fields == {"pallet", "extrinsic", "steps", "repeat"}
StringFields == {"pallet", "extrinsic"}

FieldKey(f) ==
    CASE f = "pallet" -> k_pallet
      [] f = "extrinsic" -> k_extrinsic
      [] f = "steps" -> k_steps
      [] f = "repeat" -> k_repeat

pallet_utility ==
    <<"p", "a", "l", "l", "e", "t", "-", "u", "t", "i", "l", "i", "t", "y">>
as_sub == <<"a", "s", "_", "s", "u", "b">>

FieldValueText(f) ==
    CASE f = "pallet" -> <<DQ>> \o pallet_utility \o <<DQ>>
      [] f = "extrinsic" -> <<DQ>> \o as_sub \o <<DQ>>
      [] f = "steps" -> <<"3", "0">>
      [] f = "repeat" -> <<"1", "1">>

\* the record test::simple expects
TestHeaderInfo ==
    [repeat |-> 11, steps |-> 30,
     pallet_name |-> pallet_utility, extrinsic |-> as_sub]

LowerToUpper ==
    [c \in {UpperToLower[u] : u \in DOMAIN UpperToLower} |->
        CHOOSE u \in DOMAIN UpperToLower : UpperToLower[u] = c]

Styles == {"lower", "Title", "UPPER", "mIxEd"}

Spell(style, lk) ==
    [j \in 1..Len(lk) |->
        IF lk[j] \in DOMAIN LowerToUpper
           /\ \/ style = "UPPER"
              \/ style = "Title" /\ j = 1
              \/ style = "mIxEd" /\ j % 2 = 0
        THEN LowerToUpper[lk[j]] ELSE lk[j]]

Layouts ==
    { [name |-> "test", lead |-> <<>>, pre |-> <<" ">>, post |-> <<>>,
       sep |-> <<",", " ">>, last |-> <<>>, trail |-> <<>>],
      [name |-> "tight", lead |-> <<>>, pre |-> <<>>, post |-> <<>>,
       sep |-> <<",">>, last |-> <<>>, trail |-> <<>>],
      [name |-> "wide", lead |-> <<" ">>, pre |-> <<" ", "\t">>,
       post |-> <<" ">>, sep |-> <<",", " ", " ">>, last |-> <<>>,
       trail |-> <<"\t">>],
      [name |-> "comma", lead |-> <<>>, pre |-> <<" ">>, post |-> <<>>,
       sep |-> <<",", " ">>, last |-> <<",">>, trail |-> <<>>] }

Orders == {o \in [1..4 -> Fields] : \A a, b \in 1..4 : o[a] = o[b] => a = b}

FieldGens ==
    [kind : {"fields"}, order : Orders, present : SUBSET Fields,
     style : Styles, layout : Layouts]

\* the fields of the header, in the order of their pairs
PresentSeq(g) == SelectSeq(g.order, LAMBDA f : f \in g.present)

RenderField(g, fs, j) ==
    Spell(g.style, FieldKey(fs[j])) \o <<":">>
        \o g.layout.pre \o FieldValueText(fs[j]) \o g.layout.post
        \o (IF j < Len(fs) THEN g.layout.sep ELSE g.layout.last)

RECURSIVE RenderFields(_, _, _)
RenderFields(g, fs, j) ==
    IF j > Len(fs) THEN <<>>
    ELSE RenderField(g, fs, j) \o RenderFields(g, fs, j + 1)

RenderFieldsHeader(g) ==
    <<DQ>> \o g.layout.lead \o RenderFields(g, PresentSeq(g), 1)
        \o <<DQ>> \o g.layout.trail

RenderGen(g) ==
    CASE g.kind = "text" -> g.line
      [] g.kind = "pairs" -> <<DQ>> \o RenderPairs(g.pairs) \o <<DQ>>
      [] g.kind = "fields" -> RenderFieldsHeader(g)

----------------------------------------------------------------------------
(* run: the ingestion loop of main.rs *)

MaxRows == 4

\* a u32 as its two 16-bit halves
U32(hi, lo) == [hi |-> hi, lo |-> lo]
U32Less(a, b) == a.hi < b.hi \/ (a.hi = b.hi /\ a.lo < b.lo)

\* u32::min_value() and u32::max_value()
u32_min_value == U32(0, 0)
u32_max_value == U32(65535, 65535)

\* a row that decodes as a Record, a row that does not (with the text of
\* rec.as_slice()), or a row the csv reader fails on
RecordRows ==
    { [kind |-> "record", idx |-> U32(0, 0), time_ms |-> U32(0, 2)],
      [kind |-> "record", idx |-> U32(0, 77), time_ms |-> U32(1, 0)] }

RunLines ==
    { CsvHeaderLine,
      <<DQ, "S", "t", "e", "p", "s", ":", " ", "3", "0", DQ>>,
      <<DQ, "S", "t", "e", "p", "s", ":", DQ, "a", DQ, ",", DQ>> }

TextRows == [kind : {"text"}, line : RunLines]

ErrorRows == { [kind |-> "csverr"] }

AtRow(k) == runpc = "loop" /\ pos <= Len(rows) /\ rows[pos].kind = k

\* rec.map_err(|_e| format_err!("Failed to parse csv line"))?
RowCsvError ==
    /\ AtRow("csverr")
    /\ runpc' = "err"
    /\ UNCHANGED <<rows, pos, first_valid_record, data,
                   x_max, x_min, y_max, y_min, headers, warned, info>>
    /\ UNCHANGED parserVars

\* a faulty variant of RowRecord: first_valid_record is never set
RowRecord_flag_unset ==
    /\ AtRow("record")
    /\ LET record == rows[pos]
       IN /\ x_max' = IF U32Less(x_max, record.idx) THEN record.idx ELSE x_max
          /\ y_max' = IF U32Less(y_max, record.time_ms)
                      THEN record.time_ms ELSE y_max
          /\ x_min' = IF U32Less(record.idx, x_min) THEN record.idx ELSE x_min
          /\ y_min' = IF U32Less(record.time_ms, y_min)
                      THEN record.time_ms ELSE y_min
          /\ data' = Append(data, <<record.idx, record.time_ms>>)
    /\ pos' = pos + 1
    /\ UNCHANGED <<rows, runpc, first_valid_record, headers, warned, info>>
    /\ UNCHANGED parserVars

\* the and_then closure: the row decoded as a Record
RowRecord ==
    /\ AtRow("record")
    /\ LET record == rows[pos]
       IN /\ first_valid_record' = TRUE
          /\ x_max' = IF U32Less(x_max, record.idx) THEN record.idx ELSE x_max
          /\ y_max' = IF U32Less(y_max, record.time_ms)
                      THEN record.time_ms ELSE y_max
          /\ x_min' = IF U32Less(record.idx, x_min) THEN record.idx ELSE x_min
          /\ y_min' = IF U32Less(record.time_ms, y_min)
                      THEN record.time_ms ELSE y_min
          /\ data' = Append(data, <<record.idx, record.time_ms>>)
    /\ pos' = pos + 1
    /\ UNCHANGED <<rows, runpc, headers, warned, info>>
    /\ UNCHANGED parserVars

\* the or_else closure, no record decoded so far: the header parsers are
\* called on the row.  header::parse_header_columns has no definition in the
\* source; the call is taken to return.
RowHeader ==
    /\ AtRow("text")
    /\ ~first_valid_record
    /\ headers' = Append(headers, pos)
    /\ runpc' = "header"
    /\ gen' = [kind |-> "row", row |-> pos]
    /\ input' = rows[pos].line
    /\ pc' = "start"
    /\ UNCHANGED <<v_of_kv, folded, remainder, h>>
    /\ UNCHANGED <<rows, pos, first_valid_record, data,
                   x_max, x_min, y_max, y_min, warned, info>>

\* parse_header_info returned: its result is printed, the closure yields Ok(())
HeaderReturn ==
    /\ runpc = "header"
    /\ pc \in {"ok", "err"}
    /\ info' = IF pc = "ok" THEN <<"Ok", remainder, h>> ELSE <<"Err">>
    /\ runpc' = "loop"
    /\ pos' = pos + 1
    /\ pc' = "idle"
    /\ UNCHANGED <<gen, input, v_of_kv, folded, remainder, h>>
    /\ UNCHANGED <<rows, first_valid_record, data,
                   x_max, x_min, y_max, y_min, headers, warned>>

\* parse_header_info panicked: the panic unwinds through run
HeaderPanic ==
    /\ runpc = "header"
    /\ pc = "trap"
    /\ runpc' = "panic"
    /\ UNCHANGED <<rows, pos, first_valid_record, data,
                   x_max, x_min, y_max, y_min, headers, warned, info>>
    /\ UNCHANGED parserVars

\* the or_else closure after the first record: Err(e), then
\* unwrap_or_else warns
RowWarn ==
    /\ AtRow("text")
    /\ first_valid_record
    /\ warned' = Append(warned, pos)
    /\ pos' = pos + 1
    /\ UNCHANGED <<rows, runpc, first_valid_record, data,
                   x_max, x_min, y_max, y_min, headers, info>>
    /\ UNCHANGED parserVars

\* after the loop: bail!("Only one datapoint, go home") or plot(..)
EndOfRows ==
    /\ runpc = "loop"
    /\ pos > Len(rows)
    /\ runpc' = IF Len(data) < 2 THEN "bail" ELSE "plot"
    /\ UNCHANGED <<rows, pos, first_valid_record, data,
                   x_max, x_min, y_max, y_min, headers, warned, info>>
    /\ UNCHANGED parserVars

RunNext ==
    \/ RowCsvError
    \/ RowRecord
    \/ RowHeader
    \/ HeaderReturn
    \/ HeaderPanic
    \/ RowWarn
    \/ EndOfRows
    \/ ParseGrammar
    \/ FoldStep
    \/ ParseReturn

----------------------------------------------------------------------------
(* Specifications *)

InitRunVars ==
    /\ pos = 1
    /\ first_valid_record = FALSE
    /\ data = <<>>
    /\ x_max = u32_min_value
    /\ y_max = u32_min_value
    /\ x_min = u32_max_value
    /\ y_min = u32_max_value
    /\ headers = <<>>
    /\ warned = <<>>
    /\ info = <<"none">>

InitParserVars ==
    /\ v_of_kv = <<>>
    /\ folded = 0
    /\ remainder = <<>>
    /\ h = HeaderInfoDefault

\* parse_header_info called on one line
Init ==
    /\ \/ gen \in TextGens
       \/ gen \in PairGens
       \/ gen \in FieldGens
    /\ input = RenderGen(gen)
    /\ pc = "start"
    /\ InitParserVars
    /\ rows = <<>>
    /\ runpc = "idle"
    /\ InitRunVars

Next == ParseGrammar \/ FoldStep \/ ParseReturn

Spec == Init /\ [][Next]_vars

\* run on up to MaxRows rows
InitRun ==
    /\ rows \in UNION {[1..n -> RecordRows \cup TextRows \cup ErrorRows] :
                          n \in 0..MaxRows}
    /\ runpc = "loop"
    /\ gen = [kind |-> "none"]
    /\ input = <<>>
    /\ pc = "idle"
    /\ InitParserVars
    /\ InitRunVars

SpecRun == InitRun /\ [][RunNext]_vars

-------------------------------------------------------------------------------------------------------------------------------------------------
(* Properties *)

Returned == pc \in {"ok", "err", "trap"}

HasChar(s, c) == \E j \in 1..Len(s) : s[j] = c

SeqToSet(s) == {s[j] : j \in 1..Len(s)}

\* C1: every header that holds each of the four recognized keys exactly once,
\* in any order, any letter case and any optional whitespace, parses to the
\* record of the supplied values.
C1_AllKeysParsed ==
    (gen.kind = "fields" /\ gen.present = Fields /\ Returned)
        => (pc = "ok" /\ h = TestHeaderInfo)

\* C2: parse_header_info never reaches an unreachable!() path; a value of the
\* wrong type for a recognized key is a recoverable error.
C2_NeverTraps == pc # "trap"

\* the grammar matches a prefix of the input and leaves some of it
TrailingContent ==
    header_grammar(input).ok /\ Len(header_grammar(input).rest) > 0

LastNonSpaceIsQuote(s) ==
    \E j \in 1..Len(s) :
        /\ s[j] = DQ
        /\ \A m \in (j + 1)..Len(s) : IsSpace(s[m])

\* C3: parse_header_info succeeds only on an input that starts with a double
\* quote and is consumed whole by the quote, one or more pairs, the closing
\* quote and trailing whitespace; the remainder it returns is empty, and an
\* input the grammar matches only in part is rejected.
C3_TotalMatch ==
    /\ pc \in {"fold", "ok", "trap"} =>
          /\ remainder = <<>>
          /\ Len(input) >= 2
          /\ input[1] = DQ
          /\ LastNonSpaceIsQuote(Tail(input))
          /\ Len(v_of_kv) >= 1
    /\ (Returned /\ TrailingContent) => pc = "err"

\* C3, reached: a quoted header with content after its closing quote is
\* rejected.
C3_TrailingContentRejected ==
    pc = "err" /\ TrailingContent /\ LastNonSpaceIsQuote(Tail(input))

QuotedAb == <<" ", DQ, "a", "b", DQ>>

\* C4: the comma after a pair is optional for numeric and for quoted-string
\* values alike: a header whose only pair has a quoted-string value parses,
\* with that value assigned, with or without the comma.
C4_CommaOptional ==
    (/\ gen.kind = "pairs"
     /\ Len(gen.pairs) = 1
     /\ to_lowercase(gen.pairs[1].key) = k_pallet
     /\ gen.pairs[1].val = QuotedAb
     /\ Returned)
        => (pc = "ok" /\ h.pallet_name = <<"a", "b">>)

DigitsThenLetters == <<" ", "3", "0", "a", "b", "c">>

\* C5: a digit run followed by a character that is not whitespace, a comma or
\* the closing quote makes parse_header_info fail: a header whose first pair
\* is `Steps: 30abc` yields no record.
C5_GarbageAfterDigitsFails ==
    (/\ gen.kind = "pairs"
     /\ Len(gen.pairs) >= 1
     /\ gen.pairs[1].key = <<"S", "t", "e", "p", "s">>
     /\ gen.pairs[1].val = DigitsThenLetters
     /\ Returned)
        => pc # "ok"

\* the fold is about to take a pair whose lowercased key is not recognized
UnknownKeyTurn ==
    /\ pc = "fold"
    /\ folded < Len(v_of_kv)
    /\ to_lowercase(v_of_kv[folded + 1].k)
          \notin {k_pallet, k_extrinsic, k_steps, k_repeat}

\* C6: a pair whose lowercased key is not a recognized key never makes the
\* parse fail and never changes the record: the turn of the fold that takes
\* it leaves the record as it was and goes on to the next pair, so the record
\* is the one the other pairs alone produce.
C6_UnknownKeyIgnored ==
    [][UnknownKeyTurn => (pc' = "fold" /\ h' = h /\ folded' = folded + 1)]_vars

FooThenSteps ==
    <<DQ, "F", "o", "o", ":", " ", "1", ",", " ",
      "S", "t", "e", "p", "s", ":", " ", "2", DQ>>

\* C6, reached: "Foo: 1, Steps: 2" parses to steps = 2 and defaults.
C6_FooIgnored ==
    /\ input = FooThenSteps
    /\ pc = "ok"
    /\ Len(v_of_kv) = 2
    /\ h = [repeat |-> 0, steps |-> 2, pallet_name |-> <<>>, extrinsic |-> <<>>]

KeyParsed(f) ==
    \E j \in 1..Len(v_of_kv) : to_lowercase(v_of_kv[j].k) = FieldKey(f)

ExpectedInfo(present) ==
    [repeat |-> IF "repeat" \in present THEN 11 ELSE 0,
     steps |-> IF "steps" \in present THEN 30 ELSE 0,
     pallet_name |-> IF "pallet" \in present THEN pallet_utility ELSE <<>>,
     extrinsic |-> IF "extrinsic" \in present THEN as_sub ELSE <<>>]

C8_NoColonRejected ==
    (pc # "start" /\ pc # "idle" /\ ~HasChar(input, ":")) => pc = "err"

\* C8, reached: "A,I,time" is rejected.
C8_CsvHeaderRejected == input = CsvHeaderLine /\ pc = "err"

RecordBefore(j) == \E m \in 1..(j - 1) : rows[m].kind = "record"

\* the rows the loop has taken up
Reached ==
    1..(IF runpc \in {"header", "panic"} THEN pos ELSE pos - 1)

RECURSIVE PointsOf(_, _)
\* the points of the rows among the first n that decode
PointsOf(rs, n) ==
    IF n = 0 THEN <<>>
    ELSE IF rs[n].kind = "record"
         THEN Append(PointsOf(rs, n - 1), <<rs[n].idx, rs[n].time_ms>>)
         ELSE PointsOf(rs, n - 1)

IsMaxOf(b, S) == b \in S \cup {u32_min_value} /\ \A v \in S : ~U32Less(b, v)
IsMinOf(b, S) == b \in S \cup {u32_max_value} /\ \A v \in S : ~U32Less(v, b)

\* the points and bounds are those of the decoded rows before pos: a row that
\* does not decode leaves them as they were
OnlyRecordsCounted ==
    /\ data = PointsOf(rows, pos - 1)
    /\ IsMaxOf(x_max, {data[j][1] : j \in 1..Len(data)})
    /\ IsMinOf(x_min, {data[j][1] : j \in 1..Len(data)})
    /\ IsMaxOf(y_max, {data[j][2] : j \in 1..Len(data)})
    /\ IsMinOf(y_min, {data[j][2] : j \in 1..Len(data)})

FirstAt(s, from, P(_)) ==
    CHOOSE j \in from..(Len(s) + 1) :
        /\ j = Len(s) + 1 \/ P(s[j])
        /\ \A m \in from..(j - 1) : ~P(s[m])

\* what lies between the first double quote of val (and the spaces and tabs
\* after it) and the next double quote
QuotedText(val) ==
    LET open == FirstAt(val, 1, LAMBDA c : c = DQ)
        start == FirstAt(val, open + 1, LAMBDA c : ~IsSpace(c))
        close == FirstAt(val, start, LAMBDA c : c = DQ)
    IN SubSeq(val, start, close - 1)

IsQuoted(val) == HasChar(val, DQ)

\* a pair whose text the parser takes as one pair, whatever follows it
SelfContained(p) ==
    \/ p.val \in {<<" ", "1">>, <<" ", "2">>}
    \/ IsQuoted(p.val) /\ HasChar(p.sep, ",")

\* C10: the text of a quoted-string value is what lies between its opening
\* double quote (and the spaces and tabs after it) and the first double quote
\* that follows; a double quote inside the value ends it there without a
\* failure, and what follows up to the next comma is dropped.
C10_QuotedValueEndsAtFirstQuote ==
    gen.kind = "pairs" =>
        /\ pc \in {"fold", "ok", "trap"} =>
              \A j \in 1..Len(gen.pairs) :
                  (/\ \A m \in 1..(j - 1) : SelfContained(gen.pairs[m])
                   /\ IsQuoted(gen.pairs[j].val)
                   /\ HasChar(gen.pairs[j].sep, ","))
                      => /\ Len(v_of_kv) >= j
                         /\ v_of_kv[j].k = gen.pairs[j].key
                         /\ v_of_kv[j].v = String(QuotedText(gen.pairs[j].val))
        /\ (/\ Returned
            /\ Len(gen.pairs) >= 1
            /\ \A j \in 1..Len(gen.pairs) : SelfContained(gen.pairs[j]))
              => pc # "err"

\* C10, reached: the value "a"b" parses to a.
C10_InnerQuoteTruncates ==
    /\ pc = "ok"
    /\ gen.kind = "pairs"
    /\ Len(gen.pairs) = 1
    /\ gen.pairs[1].key = <<"P", "A", "L", "L", "E", "T">>
    /\ gen.pairs[1].val = <<" ", DQ, "a", DQ, "b", DQ>>
    /\ h.pallet_name = <<"a">>

====
